---- MODULE Spec2Model ----
(***************************************************************************)
(* Model of the Geth multi-node provisioner (src/main.py): the sequential  *)
(* pipeline provision_cluster run by the /provision handler, its helpers   *)
(* (create_account, build_clique_genesis, get_enode_via_rpc, ...) and the  *)
(* environment it drives (the geth binary, the admin RPC channel, the      *)
(* clock and the files under OUT_DIR).                                     *)
(*                                                                         *)
(* Python strings are sequences of one-character strings, so that parsing  *)
(* and hex encoding are computed, not assumed.                             *)
(***************************************************************************)
EXTENDS Integers, Sequences, FiniteSets, TLC

\* ------------------------------------------------------------------ bounds
\* Largest node count a request asks for.
MaxNodes == 3
\* Largest value of the wall clock (whole seconds, as int(time.time()); the
\* values stand for the seconds the clock reads fall into, in order).
MaxTime == 2
\* node_info answers without an enode are counted up to here (the count
\* saturates: the loop itself puts no limit on them).
MaxEmpty == 1
\* Requests served one after the other, and the largest node count they ask
\* for.
MaxRuns == 2
MaxSeqNodes == 2
\* Largest node count of two requests served at the same time.
MaxParNodes == 2

\* ------------------------------------------------------- program constants
HTTP_BASE == 8545
P2P_BASE == 30303
CHA_ID == 1515
\* gasLimit default of build_clique_genesis
DefaultGasLimit == 8000000
\* "00" * 32 and "00" * 65 in build_clique_genesis
VanityBytes == 32
TailBytes == 65
\* while attempts < 10 in get_enode_via_rpc
RetryCeiling == 10

\* ------------------------------------------------------------ string tools
Rep(c, n) == [k \in 1..n |-> c]

HexLower == {"0","1","2","3","4","5","6","7","8","9","a","b","c","d","e","f"}
HexUpper == {"A","B","C","D","E","F"}
\* the character class [0-9a-fA-F]
IsHexChar(c) == c \in HexLower \cup HexUpper

\* str.lower() on one character (only hex letters occur in upper case here)
LowerChar(c) ==
    CASE c = "A" -> "a" [] c = "B" -> "b" [] c = "C" -> "c"
      [] c = "D" -> "d" [] c = "E" -> "e" [] c = "F" -> "f"
      [] OTHER -> c
Lower(s) == [k \in 1..Len(s) |-> LowerChar(s[k])]

\* s.replace("0x", ""): every non-overlapping occurrence, left to right
RECURSIVE Replace0x(_)
Replace0x(s) ==
    IF Len(s) < 2 THEN s
    ELSE IF s[1] = "0" /\ s[2] = "x" THEN Replace0x(SubSeq(s, 3, Len(s)))
    ELSE <<s[1]>> \o Replace0x(Tail(s))

\* "".join(list of strings)
RECURSIVE Join(_)
Join(ss) == IF ss = <<>> THEN <<>> ELSE Head(ss) \o Join(Tail(ss))

SetMin(S) == CHOOSE x \in S : \A y \in S : x <= y

\* "Address" in line
AddressWord == <<"A","d","d","r","e","s","s">>
ContainsAddress(line) ==
    \E k \in 1..(Len(line) - 6) : SubSeq(line, k, k + 6) = AddressWord

\* re.search(r'0x[0-9a-fA-F]+', line): the leftmost match, taken greedily;
\* <<>> stands for None (a match is never empty)
RegexStarts(line) ==
    {k \in 1..(Len(line) - 2) :
        line[k] = "0" /\ line[k + 1] = "x" /\ IsHexChar(line[k + 2])}
RegexSearch(line) ==
    IF RegexStarts(line) = {} THEN <<>>
    ELSE LET b == SetMin(RegexStarts(line))
             e == CHOOSE j \in (b + 2)..Len(line) :
                     /\ \A k \in (b + 2)..j : IsHexChar(line[k])
                     /\ (j = Len(line) \/ ~IsHexChar(line[j + 1]))
         IN SubSeq(line, b, e)

\* hex(n) of a non-negative integer
HexDigit(d) ==
    CASE d = 10 -> "a" [] d = 11 -> "b" [] d = 12 -> "c"
      [] d = 13 -> "d" [] d = 14 -> "e" [] d = 15 -> "f"
      [] OTHER -> ToString(d)
RECURSIVE HexDigits(_)
HexDigits(n) ==
    IF n < 16 THEN <<HexDigit(n)>>
    ELSE HexDigits(n \div 16) \o <<HexDigit(n % 16)>>
Hex(n) == <<"0", "x">> \o HexDigits(n)

\* ---------------------------------------------------- create_account parse
\* The address create_account extracts from the tool's report `out` (a
\* sequence of lines): the first regex match on a line holding "Address";
\* <<>> when there is none (addr stays None and RuntimeError is raised).
RECURSIVE ParseAddress(_)
ParseAddress(out) ==
    IF out = <<>> THEN <<>>
    ELSE IF ContainsAddress(Head(out)) /\ RegexSearch(Head(out)) # <<>>
         THEN RegexSearch(Head(out))
         ELSE ParseAddress(Tail(out))

\* ---------------------------------------------------- build_clique_genesis
\* (mutant) the "0x" prefixes are left in
SignersHexKeepPrefix(signer_addresses) ==
    Join([k \in 1..Len(signer_addresses) |-> Lower(signer_addresses[k])])

SignersHex(signer_addresses) ==
    Join([k \in 1..Len(signer_addresses) |->
            Replace0x(Lower(signer_addresses[k]))])

ExtraData(signer_addresses) ==
    <<"0", "x">> \o Rep("0", 2 * VanityBytes) \o SignersHex(signer_addresses)
        \o Rep("0", 2 * TailBytes)

build_clique_genesis(chainId, signer_addresses) ==
    [ chainId   |-> chainId,
      period    |-> 1,
      epoch     |-> 30000,
      extraData |-> ExtraData(signer_addresses),
      gasLimit  |-> Hex(DefaultGasLimit) ]

\* --------------------------------------------------------- port assignment
get_node_http_port(idx) == HTTP_BASE + (idx - 1)
\* (mutant) every node gets the base network port
get_node_p2p_portFixed(idx) == P2P_BASE
get_node_p2p_port(idx) == P2P_BASE + (idx - 1)

\* ------------------------------------------------------------ environment
\* Reports the identity tool ("geth account new") may print, as lines.
\* AddrA/AddrB are well-formed 20-byte addresses (AddrB in mixed case),
\* AddrShort is a hex run of the wrong length.
AddrA == <<"0", "x">> \o Rep("1", 38) \o <<"a", "b">>
AddrB == <<"0", "x">> \o Rep("2", 38) \o <<"C", "d">>
AddrShort == <<"0", "x", "a", "b", "c">>
ReportA == << <<"n","e","w"," ","k","e","y">>,
              <<"A","d","d","r","e","s","s",":"," ","{">> \o AddrA \o <<"}">> >>
ReportB == << <<"A","d","d","r","e","s","s",":"," ">> \o AddrB >>
ReportShort == << <<"A","d","d","r","e","s","s",":"," ">> \o AddrShort >>
\* current geth wording: "address" in lower case, so no line qualifies
ReportNoAddress == << <<"P","u","b","l","i","c"," ","a","d","d","r","e","s","s"," ","o","f"," ","t","h","e"," ","k","e","y",":"," ">> \o AddrA >>
ToolReports == {ReportA, ReportB, ReportShort, ReportNoAddress}

\* Exit statuses of "geth init"
ExitCodes == {0, 1}

\* What one admin.node_info call yields: an exception, or a record whose
\* "enode" entry is missing (info.get gives None), empty, or a usable string.
NoneValue == "<None>"
Enodes == {"enode://b1", "enode://b2"}
NodeInfoOutcomes ==
    {[kind |-> "raise", enode |-> NoneValue]} \cup
    {[kind |-> "info", enode |-> v] : v \in {NoneValue, ""} \cup Enodes}
\* Python truthiness of info.get("enode")
Truthy(v) == v # NoneValue /\ v # ""

\* What one admin.add_peer call yields
AddPeerOutcomes == {"true", "false", "raise"}

\* Requested inputs of /provision
NodeCounts == 0..MaxNodes
ChainIds == {CHA_ID}

\* ------------------------------------------------------------------ state
VARIABLES
    now,            \* int(time.time())
    genesisFiles,   \* OUT_DIR/genesis_<t>.json, by t
    recordFiles,    \* OUT_DIR/cluster_<t>.json, by t
    procs,          \* geth processes launched so far, in launch order
    runs,           \* number of /provision requests accepted so far
    pc,             \* position of the current run
    num_nodes, chain_id,
    i,              \* loop index of the current phase
    node_paths, signer_addrs,
    genesis, genesis_path,
    pids,
    attempts, enode,
    cluster_meta,
    response,       \* what api_provision returned to the caller
    inits,          \* history: geth init calls of this run
    niEmpty,        \* history: answers without an enode in the polling loop
    niPorts,        \* history: RPC ports node_info was sent to in this run
    niEnode,        \* history: enode of the record node_info answered with
    peerLog,        \* history: add_peer calls of this run
    slept,          \* time.sleep has returned since the clock last advanced
    started_at,     \* history: the clock when the current run was accepted
    accounts,       \* history: accounts created in the node directories
    o_pc, o_n, o_i, \* a second /provision request served at the same time
    o_genesis_path

envVars == <<now, genesisFiles, recordFiles, procs>>
inputVars == <<num_nodes, chain_id>>
idVars == <<node_paths, signer_addrs>>
genVars == <<genesis, genesis_path>>
discVars == <<attempts, enode, niEmpty, niPorts, niEnode>>
otherVars == <<o_pc, o_n, o_i, o_genesis_path>>
auxVars == <<slept, started_at, accounts, otherVars>>
vars == <<now, genesisFiles, recordFiles, procs, runs, pc, num_nodes,
          chain_id, i, node_paths, signer_addrs, genesis, genesis_path,
          pids, attempts, enode, cluster_meta, response, inits, niEmpty,
          niPorts, niEnode, peerLog, slept, started_at, accounts, o_pc,
          o_n, o_i, o_genesis_path>>

NoFile == [run |-> 0]
NoGenesis == [none |-> TRUE]
NoPath == -1
NoMeta == [none |-> TRUE]
NoResponse == [status |-> "none"]

Init ==
    /\ now = 0
    /\ genesisFiles = [t \in 0..MaxTime |-> NoFile]
    /\ recordFiles = [t \in 0..MaxTime |-> NoFile]
    /\ procs = <<>>
    /\ runs = 0
    /\ pc = "idle"
    /\ num_nodes = 0
    /\ chain_id = CHA_ID
    /\ i = 1
    /\ node_paths = <<>>
    /\ signer_addrs = <<>>
    /\ genesis = NoGenesis
    /\ genesis_path = NoPath
    /\ pids = <<>>
    /\ attempts = 0
    /\ enode = ""
    /\ cluster_meta = NoMeta
    /\ response = NoResponse
    /\ inits = <<>>
    /\ niEmpty = 0
    /\ niPorts = {}
    /\ niEnode = ""
    /\ peerLog = <<>>
    /\ slept = FALSE
    /\ started_at = 0
    /\ accounts = <<>>
    /\ o_pc = "idle"
    /\ o_n = 0
    /\ o_i = 1
    /\ o_genesis_path = NoPath

\* ---------------------------------------------------------------- actions
\* (mutant) the exception leaves api_provision unhandled
RaiseEscapes(detail) ==
    /\ pc' = "returned"
    /\ response' = [status |-> "unhandled", detail |-> detail]

\* api_provision's except clause: any exception raised inside
\* provision_cluster ends the run with an error object.
Raise(detail) ==
    /\ pc' = "returned"
    /\ response' = [status |-> "error", detail |-> detail]

\* POST /provision: api_provision calls provision_cluster, which enters
\* init_nodes with empty lists.
ApiProvision(n, c) ==
    /\ pc = "idle"
    /\ runs' = runs + 1
    /\ num_nodes' = n
    /\ chain_id' = c
    /\ pc' = "init_nodes"
    /\ i' = 1
    /\ node_paths' = <<>>
    /\ signer_addrs' = <<>>
    /\ genesis' = NoGenesis
    /\ genesis_path' = NoPath
    /\ pids' = <<>>
    /\ attempts' = 0
    /\ enode' = ""
    /\ cluster_meta' = NoMeta
    /\ response' = NoResponse
    /\ inits' = <<>>
    /\ niEmpty' = 0
    /\ niPorts' = {}
    /\ niEnode' = ""
    /\ peerLog' = <<>>
    /\ started_at' = now
    /\ UNCHANGED <<envVars, slept, accounts, otherVars>>

\* (mutant) a node whose report holds no address is skipped
CreateAccountSkips(out) ==
    /\ pc = "init_nodes"
    /\ i <= num_nodes
    /\ node_paths' = Append(node_paths, i)
    /\ signer_addrs' = IF ParseAddress(out) = <<>> THEN signer_addrs
                       ELSE Append(signer_addrs, ParseAddress(out))
    /\ accounts' = IF ParseAddress(out) = <<>> THEN accounts
                   ELSE Append(accounts, [run      |-> runs,
                                          node_dir |-> i,
                                          address  |-> ParseAddress(out)])
    /\ i' = i + 1
    /\ UNCHANGED <<envVars, runs, pc, response, inputVars, genVars, pids,
                   discVars, cluster_meta, inits, peerLog, slept,
                   started_at, otherVars>>

\* One iteration of init_nodes: node_dir is recorded, then create_account
\* parses the tool's report and raises when it finds no address.
CreateAccount(out) ==
    /\ pc = "init_nodes"
    /\ i <= num_nodes
    /\ node_paths' = Append(node_paths, i)
    /\ IF ParseAddress(out) = <<>>
       THEN /\ Raise("Could not create account")
            /\ UNCHANGED <<i, signer_addrs, accounts>>
       ELSE /\ signer_addrs' = Append(signer_addrs, ParseAddress(out))
            /\ accounts' = Append(accounts, [run      |-> runs,
                                             node_dir |-> i,
                                             address  |-> ParseAddress(out)])
            /\ i' = i + 1
            /\ UNCHANGED <<pc, response>>
    /\ UNCHANGED <<envVars, runs, inputVars, genVars, pids, discVars,
                   cluster_meta, inits, peerLog, slept, started_at,
                   otherVars>>

\* init_nodes returns; step 2 builds the genesis and writes it to
\* genesis_<int(time.time())>.json.
WriteGenesis ==
    /\ pc = "init_nodes"
    /\ i > num_nodes
    /\ ~slept
    /\ genesis' = build_clique_genesis(chain_id, signer_addrs)
    /\ genesis_path' = now
    /\ genesisFiles' = [genesisFiles EXCEPT
                          ![now] = [run |-> runs, genesis |-> genesis']]
    /\ pc' = "init"
    /\ i' = 1
    /\ UNCHANGED <<now, recordFiles, procs, runs, inputVars, idVars, pids,
                   discVars, cluster_meta, response, inits, peerLog,
                   auxVars>>

InitFailedIgnored(rc) == FALSE
\* init_geth_datadir raises on a non-zero exit status
InitFailed(rc) == rc # 0

\* Step 3, one iteration: geth init of node_paths[i] from genesis_path.
InitGethDatadir(rc) ==
    /\ pc = "init"
    /\ i <= Len(node_paths)
    /\ inits' = Append(inits, [node_dir     |-> node_paths[i],
                               genesis_path |-> genesis_path,
                               returncode   |-> rc])
    /\ IF InitFailed(rc)
       THEN /\ Raise("geth init failed")
            /\ UNCHANGED i
       ELSE /\ i' = i + 1
            /\ UNCHANGED <<pc, response>>
    /\ UNCHANGED <<envVars, runs, inputVars, idVars, genVars, pids,
                   discVars, cluster_meta, peerLog,
                   auxVars>>

\* (mutant) the init loop is left before every node_dir was initialised
InitLoopExitEarly ==
    /\ pc = "init"
    /\ pc' = "start"
    /\ i' = 1
    /\ pids' = <<>>
    /\ UNCHANGED <<envVars, runs, inputVars, idVars, genVars, discVars,
                   cluster_meta, response, inits, peerLog, auxVars>>

\* The init loop is exhausted; step 4 begins with pids = [].
InitLoopExit ==
    /\ pc = "init"
    /\ i > Len(node_paths)
    /\ pc' = "start"
    /\ i' = 1
    /\ pids' = <<>>
    /\ UNCHANGED <<envVars, runs, inputVars, idVars, genVars, discVars,
                   cluster_meta, response, inits, peerLog,
                   auxVars>>

\* (mutant) every node is launched with the first account unlocked
StartGethNodeFirstAccount ==
    /\ pc = "start"
    /\ i <= Len(node_paths)
    /\ procs' = Append(procs, [run       |-> runs,
                               idx       |-> i,
                               node_dir  |-> node_paths[i],
                               http_port |-> get_node_http_port(i),
                               p2p_port  |-> get_node_p2p_port(i),
                               unlock    |-> signer_addrs[1],
                               pid       |-> Len(procs) + 1])
    /\ pids' = Append(pids, Len(procs) + 1)
    /\ slept' = TRUE
    /\ i' = i + 1
    /\ UNCHANGED <<now, genesisFiles, recordFiles, runs, pc, inputVars,
                   idVars, genVars, discVars, cluster_meta, response, inits,
                   peerLog, started_at, accounts, otherVars>>

\* Step 4, one iteration: start_geth_node launches geth in the background
\* and returns the pid the shell echoes; then the loop sleeps two seconds.
StartGethNode ==
    /\ pc = "start"
    /\ i <= Len(node_paths)
    /\ procs' = Append(procs, [run       |-> runs,
                               idx       |-> i,
                               node_dir  |-> node_paths[i],
                               http_port |-> get_node_http_port(i),
                               p2p_port  |-> get_node_p2p_port(i),
                               unlock    |-> signer_addrs[i],
                               pid       |-> Len(procs) + 1])
    /\ pids' = Append(pids, Len(procs) + 1)
    /\ slept' = TRUE
    /\ i' = i + 1
    /\ UNCHANGED <<now, genesisFiles, recordFiles, runs, pc, inputVars,
                   idVars, genVars, discVars, cluster_meta, response, inits,
                   peerLog, started_at, accounts, otherVars>>

\* The start loop is exhausted; step 5 enters get_enode_via_rpc.
StartLoopExit ==
    /\ pc = "start"
    /\ i > Len(node_paths)
    /\ pc' = "discover"
    /\ attempts' = 0
    /\ UNCHANGED <<envVars, runs, inputVars, i, idVars, genVars, pids, enode,
                   niEmpty, niPorts, niEnode, cluster_meta, response, inits,
                   peerLog,
                   auxVars>>

RetryLoopOneShort(a) == a < RetryCeiling - 1
\* while attempts < 10
RetryLoop(a) == a < RetryCeiling

\* attempts after one pass of the loop body: only the except branch counts
AttemptsAfter(a, outcome) == IF outcome.kind = "raise" THEN a + 1 ELSE a

boot_http_port == get_node_http_port(1)

\* One pass of the polling loop in get_enode_via_rpc; the except branch
\* sleeps one second.
NodeInfo(outcome) ==
    /\ pc = "discover"
    /\ RetryLoop(attempts)
    /\ niPorts' = niPorts \cup {boot_http_port}
    /\ IF outcome.kind = "info" /\ Truthy(outcome.enode)
       THEN /\ enode' = outcome.enode
            /\ niEnode' = outcome.enode
            /\ pc' = "discovered"
            /\ UNCHANGED <<attempts, niEmpty, slept>>
       ELSE /\ attempts' = AttemptsAfter(attempts, outcome)
            /\ niEmpty' = IF outcome.kind = "info" /\ niEmpty < MaxEmpty
                          THEN niEmpty + 1 ELSE niEmpty
            /\ slept' = (slept \/ outcome.kind = "raise")
            /\ UNCHANGED <<enode, niEnode, pc>>
    /\ UNCHANGED <<envVars, runs, inputVars, i, idVars, genVars, pids,
                   cluster_meta, response, inits, peerLog, started_at,
                   accounts, otherVars>>

\* get_enode_via_rpc returns the enode: its loop counter goes out of scope
\* and provision_cluster enters the peer loop at idx = 2.
EnodeReturned ==
    /\ pc = "discovered"
    /\ pc' = "peer"
    /\ i' = 2
    /\ attempts' = 0
    /\ niEmpty' = 0
    /\ UNCHANGED <<envVars, runs, inputVars, idVars, genVars, pids, enode,
                   niPorts, niEnode, cluster_meta, response, inits, peerLog,
                   auxVars>>

\* (mutant) the exhausted budget is swallowed and the run goes on
DiscoveryFailSwallowed ==
    /\ pc = "discover"
    /\ ~RetryLoop(attempts)
    /\ pc' = "peer"
    /\ i' = 2
    /\ UNCHANGED <<envVars, runs, inputVars, idVars, genVars, pids,
                   discVars, cluster_meta, response, inits, peerLog,
                   auxVars>>

\* The polling loop ends without an enode: RuntimeError.
DiscoveryFail ==
    /\ pc = "discover"
    /\ ~RetryLoop(attempts)
    /\ Raise("Could not get enode")
    /\ UNCHANGED <<envVars, runs, inputVars, i, idVars, genVars, pids,
                   discVars, cluster_meta, inits, peerLog,
                   auxVars>>

\* add_peer_via_rpc: the RPC's boolean, False when the call raises
AddPeerResult(outcome) == outcome = "true"

\* (mutant) an exception of the add_peer call is not caught
AddPeerPropagates(outcome) ==
    /\ pc = "peer"
    /\ i <= num_nodes
    /\ peerLog' = Append(peerLog, [idx   |-> i,
                                   port  |-> get_node_http_port(i),
                                   enode |-> enode,
                                   ok    |-> AddPeerResult(outcome)])
    /\ IF outcome = "raise"
       THEN /\ Raise("add_peer failed")
            /\ UNCHANGED i
       ELSE /\ i' = i + 1
            /\ UNCHANGED <<pc, response>>
    /\ UNCHANGED <<envVars, runs, inputVars, idVars, genVars, pids,
                   discVars, cluster_meta, inits,
                   auxVars>>

\* One iteration of the peer loop, for idx in range(2, num_nodes + 1).
AddPeer(outcome) ==
    /\ pc = "peer"
    /\ i <= num_nodes
    /\ peerLog' = Append(peerLog, [idx   |-> i,
                                   port  |-> get_node_http_port(i),
                                   enode |-> enode,
                                   ok    |-> AddPeerResult(outcome)])
    /\ i' = i + 1
    /\ UNCHANGED <<envVars, runs, pc, inputVars, idVars, genVars, pids,
                   discVars, cluster_meta, response, inits,
                   auxVars>>

\* (mutant) the record's genesis reference is computed again from the clock
BuildClusterMetaNewPath ==
    /\ pc = "peer"
    /\ i > num_nodes
    /\ ~slept
    /\ cluster_meta' = [timestamp |-> now,
                        num_nodes |-> num_nodes,
                        signers   |-> signer_addrs,
                        genesis   |-> now,
                        pids      |-> pids]
    /\ pc' = "save"
    /\ UNCHANGED <<envVars, runs, inputVars, i, idVars, genVars, pids,
                   discVars, response, inits, peerLog, auxVars>>

\* Step 6: cluster_meta is built with its own reading of the clock.
BuildClusterMeta ==
    /\ pc = "peer"
    /\ i > num_nodes
    /\ ~slept
    /\ cluster_meta' = [timestamp |-> now,
                        num_nodes |-> num_nodes,
                        signers   |-> signer_addrs,
                        genesis   |-> genesis_path,
                        pids      |-> pids]
    /\ pc' = "save"
    /\ UNCHANGED <<envVars, runs, inputVars, i, idVars, genVars, pids,
                   discVars, response, inits, peerLog,
                   auxVars>>

\* The result provision_cluster returns and api_provision wraps
ProvisionResult(meta, meta_path) ==
    [status |-> "ok", meta |-> meta, meta_path |-> meta_path]

\* cluster_<int(time.time())>.json is written (the clock is read again) and
\* the result is returned; a failed write raises.
WriteClusterMeta(ok) ==
    /\ pc = "save"
    /\ ~slept
    /\ IF ok
       THEN /\ recordFiles' = [recordFiles EXCEPT
                                 ![now] = [run |-> runs, meta |-> cluster_meta]]
            /\ pc' = "returned"
            /\ response' = ProvisionResult(cluster_meta, now)
       ELSE /\ Raise("OSError")
            /\ UNCHANGED recordFiles
    /\ UNCHANGED <<now, genesisFiles, procs, runs, inputVars, i, idVars,
                   genVars, pids, discVars, cluster_meta, inits, peerLog,
                   auxVars>>

\* The places where the run reads the clock next: before the genesis path,
\* the record's timestamp and the record's path are computed.
ClockReadNext ==
    \/ pc = "init_nodes" /\ i > num_nodes
    \/ pc = "peer" /\ i > num_nodes
    \/ pc = "save"

\* The wall clock reaches a later second (time.sleep, external commands,
\* RPC round trips). Only the three int(time.time()) reads observe it, so the
\* time that has passed is accounted for where a read comes next. A value of
\* now stands for a second some read can fall into, in order: after a
\* time.sleep of a second or more the next read is in a later second (the
\* reads above wait for slept to be cleared), otherwise it may be the same.
Tick ==
    /\ now < MaxTime
    /\ ClockReadNext
    /\ now' = now + 1
    /\ slept' = FALSE
    /\ UNCHANGED <<genesisFiles, recordFiles, procs, runs, pc, inputVars, i,
                   idVars, genVars, pids, discVars, cluster_meta, response,
                   inits, peerLog, started_at, accounts, otherVars>>

Next ==
    \/ \E n \in NodeCounts, c \in ChainIds : ApiProvision(n, c)
    \/ \E out \in ToolReports : CreateAccount(out)
    \/ WriteGenesis
    \/ \E rc \in ExitCodes : InitGethDatadir(rc)
    \/ InitLoopExit
    \/ StartGethNode
    \/ StartLoopExit
    \/ \E outcome \in NodeInfoOutcomes : NodeInfo(outcome)
    \/ EnodeReturned
    \/ DiscoveryFail
    \/ \E outcome \in AddPeerOutcomes : AddPeer(outcome)
    \/ BuildClusterMeta
    \/ \E ok \in BOOLEAN : WriteClusterMeta(ok)
    \/ Tick

Spec == Init /\ [][Next]_vars

\* ------------------------------------------- requests one after the other
\* api_provision has returned its response; the server takes the next
\* request. Files, node directories and processes stay as the run left them.
ServeNext ==
    /\ pc = "returned"
    /\ runs < MaxRuns
    /\ pc' = "idle"
    /\ UNCHANGED <<envVars, runs, inputVars, i, idVars, genVars, pids,
                   discVars, cluster_meta, response, inits, peerLog, auxVars>>

\* The pid of the process that answers on an RPC port (0: none). The program
\* never stops a process it launched, so the first process launched with the
\* port keeps it, and a later one given the same port cannot bind it.
Listener(port) ==
    LET ks == {k \in 1..Len(procs) : procs[k].http_port = port}
    IN IF ks = {} THEN 0 ELSE procs[SetMin(ks)].pid

\* What the requests and the tools do in the runs of a sequence
SeqNodeCounts == 1..MaxSeqNodes
SeqReports == {ReportA, ReportB}
SeqNodeInfoOutcomes ==
    {[kind |-> "raise", enode |-> NoneValue]} \cup
    {[kind |-> "info", enode |-> v] : v \in Enodes}

NextSeq ==
    \/ \E n \in SeqNodeCounts, c \in ChainIds : ApiProvision(n, c)
    \/ \E out \in SeqReports : CreateAccount(out)
    \/ WriteGenesis
    \/ \E rc \in ExitCodes : InitGethDatadir(rc)
    \/ InitLoopExit
    \/ StartGethNode
    \/ StartLoopExit
    \/ \E outcome \in SeqNodeInfoOutcomes : NodeInfo(outcome)
    \/ EnodeReturned
    \/ DiscoveryFail
    \/ \E outcome \in AddPeerOutcomes : AddPeer(outcome)
    \/ BuildClusterMeta
    \/ \E ok \in BOOLEAN : WriteClusterMeta(ok)
    \/ Tick
    \/ ServeNext

SpecSeq == Init /\ [][NextSeq]_vars

\* ----------------------------------------------- two requests at a time
\* api_provision is a plain def: the server runs it in a worker thread, so a
\* second request can be served while a run is under way. The second run
\* executes the same provision_cluster; it is followed here along its
\* successful path through the steps that touch the node directories, the
\* genesis file and the ports, and only while the first run is under way.
OtherRun == -1
Overlapping == pc \notin {"idle", "returned"}
\* The accounts the second run has collected, in order
RECURSIVE AddressesOf(_, _)
AddressesOf(run, log) ==
    IF log = <<>> THEN <<>>
    ELSE IF log[1].run = run
         THEN <<log[1].address>> \o AddressesOf(run, Tail(log))
         ELSE AddressesOf(run, Tail(log))

OtherApiProvision(n) ==
    /\ Overlapping
    /\ o_pc = "idle"
    /\ o_pc' = "init_nodes"
    /\ o_n' = n
    /\ o_i' = 1
    /\ UNCHANGED <<envVars, runs, pc, inputVars, i, idVars, genVars, pids,
                   discVars, cluster_meta, response, inits, peerLog, slept,
                   started_at, accounts, o_genesis_path>>

\* init_nodes of the second run, one iteration: the account is created in
\* NODES_DIR/node<i>/data, the directory every run uses for node i.
OtherCreateAccount(out) ==
    /\ Overlapping
    /\ o_pc = "init_nodes"
    /\ o_i <= o_n
    /\ ParseAddress(out) # <<>>
    /\ accounts' = Append(accounts, [run      |-> OtherRun,
                                     node_dir |-> o_i,
                                     address  |-> ParseAddress(out)])
    /\ o_i' = o_i + 1
    /\ UNCHANGED <<envVars, runs, pc, inputVars, i, idVars, genVars, pids,
                   discVars, cluster_meta, response, inits, peerLog, slept,
                   started_at, o_pc, o_n, o_genesis_path>>

\* Step 2 of the second run: its genesis goes to genesis_<int(time.time())>.
OtherWriteGenesis ==
    /\ Overlapping
    /\ o_pc = "init_nodes"
    /\ o_i > o_n
    /\ o_genesis_path' = now
    /\ genesisFiles' = [genesisFiles EXCEPT
                          ![now] = [run     |-> OtherRun,
                                    genesis |-> build_clique_genesis(
                                        CHA_ID,
                                        AddressesOf(OtherRun, accounts))]]
    /\ o_pc' = "init"
    /\ o_i' = 1
    /\ UNCHANGED <<now, recordFiles, procs, runs, pc, inputVars, i, idVars,
                   genVars, pids, discVars, cluster_meta, response, inits,
                   peerLog, slept, started_at, accounts, o_n>>

\* Step 3 of the second run, one iteration: geth init of node<i>/data.
OtherInitGethDatadir ==
    /\ Overlapping
    /\ o_pc = "init"
    /\ o_i <= o_n
    /\ o_i' = o_i + 1
    /\ UNCHANGED <<envVars, runs, pc, inputVars, i, idVars, genVars, pids,
                   discVars, cluster_meta, response, inits, peerLog, slept,
                   started_at, accounts, o_pc, o_n, o_genesis_path>>

OtherInitLoopExit ==
    /\ Overlapping
    /\ o_pc = "init"
    /\ o_i > o_n
    /\ o_pc' = "start"
    /\ o_i' = 1
    /\ UNCHANGED <<envVars, runs, pc, inputVars, i, idVars, genVars, pids,
                   discVars, cluster_meta, response, inits, peerLog, slept,
                   started_at, accounts, o_n, o_genesis_path>>

\* Step 4 of the second run, one iteration: geth is launched for node i.
OtherStartGethNode ==
    /\ Overlapping
    /\ o_pc = "start"
    /\ o_i <= o_n
    /\ procs' = Append(procs,
                       [run       |-> OtherRun,
                        idx       |-> o_i,
                        node_dir  |-> o_i,
                        http_port |-> get_node_http_port(o_i),
                        p2p_port  |-> get_node_p2p_port(o_i),
                        unlock    |-> AddressesOf(OtherRun, accounts)[o_i],
                        pid       |-> Len(procs) + 1])
    /\ o_i' = o_i + 1
    /\ UNCHANGED <<now, genesisFiles, recordFiles, runs, pc, inputVars, i,
                   idVars, genVars, pids, discVars, cluster_meta, response,
                   inits, peerLog, slept, started_at, accounts, o_pc, o_n,
                   o_genesis_path>>

\* The node directories the second run has initialised
OtherInitialised ==
    IF o_pc = "init" THEN 1..(o_i - 1)
    ELSE IF o_pc = "start" THEN 1..o_n
    ELSE {}

ParNodeCounts == 1..MaxParNodes
\* Node 1 answers the first node_info call
ParNodeInfoOutcomes == {[kind |-> "info", enode |-> v] : v \in Enodes}

NextPar ==
    \/ \E n \in ParNodeCounts, c \in ChainIds : ApiProvision(n, c)
    \/ \E out \in SeqReports : CreateAccount(out)
    \/ WriteGenesis
    \/ \E rc \in ExitCodes : InitGethDatadir(rc)
    \/ InitLoopExit
    \/ StartGethNode
    \/ StartLoopExit
    \/ \E outcome \in ParNodeInfoOutcomes : NodeInfo(outcome)
    \/ EnodeReturned
    \/ \E outcome \in AddPeerOutcomes : AddPeer(outcome)
    \/ BuildClusterMeta
    \/ \E ok \in BOOLEAN : WriteClusterMeta(ok)
    \/ Tick
    \/ \E n \in ParNodeCounts : OtherApiProvision(n)
    \/ \E out \in SeqReports : OtherCreateAccount(out)
    \/ OtherWriteGenesis
    \/ OtherInitGethDatadir
    \/ OtherInitLoopExit
    \/ OtherStartGethNode

SpecPar == Init /\ [][NextPar]_vars

\* ----------------------------------------------------------------- claims
\* Processes launched by the current run
RunProcs == {k \in 1..Len(procs) : procs[k].run = runs}
Started(idx) == \E k \in RunProcs : procs[k].idx = idx
\* The node whose RPC port is `port`
NodeOfPort(port) == port - HTTP_BASE + 1
\* Files written by the current run
RunGenesisFiles == {t \in 0..MaxTime : genesisFiles[t].run = runs /\ runs > 0}
RunRecordFiles == {t \in 0..MaxTime : recordFiles[t].run = runs /\ runs > 0}
ErrorIs(detail) == response = [status |-> "error", detail |-> detail]
\* A syntactically valid address: "0x" and 40 hex digits (20 bytes)
AddressBytes == 20
IsAddress(a) ==
    /\ Len(a) = 2 + 2 * AddressBytes
    /\ a[1] = "0" /\ a[2] = "x"
    /\ \A k \in 3..Len(a) : IsHexChar(a[k])
\* The identity tool behaved: the addresses collected so far are valid and
\* pairwise distinct
SoundIdentities ==
    /\ \A k \in 1..Len(signer_addrs) : IsAddress(signer_addrs[k])
    /\ \A j, k \in 1..Len(signer_addrs) :
          j # k => signer_addrs[j] # signer_addrs[k]

\* node_info calls the polling loop has made so far (at least: niEmpty
\* saturates)
NodeInfoCalls ==
    attempts + niEmpty + (IF pc = "discovered" THEN 1 ELSE 0)
\* C1: bootstrap address discovery makes at most RetryCeiling (10) node_info
\* calls before it returns an address or fails the run, whatever node 1
\* answers (exception, record without enode, record with enode).
C1_DiscoveryWithinCeiling ==
    Started(1) /\ SoundIdentities => NodeInfoCalls <= RetryCeiling

\* C2: if geth init exits non-zero for any node of the run, no node of that
\* run is ever started, the nodes initialised before it included.
C2_NoStartAfterInitFailure ==
    (\E k \in 1..Len(inits) : inits[k].returncode # 0)
        => /\ RunProcs = {}
           /\ pids = <<>>
           /\ pc = "returned"
           /\ ErrorIs("geth init failed")
\* C2 witness: the second node's init fails after the first succeeded.
C2_Witness ==
    /\ Len(inits) = 2
    /\ inits[1].returncode = 0
    /\ inits[2].returncode # 0
    /\ pc = "returned"

\* C3: node_info and add_peer are only sent to a node that the same run has
\* started before, and add_peer only after discovery has returned an address,
\* for every requested node count.
C3_RpcOnlyAfterStart ==
    /\ \A port \in niPorts : Started(NodeOfPort(port))
    /\ \A k \in 1..Len(peerLog) : Started(NodeOfPort(peerLog[k].port))
    /\ peerLog # <<>> => Truthy(enode) /\ enode = niEnode

\* C4: when discovery exhausts its retry budget the run fails: no add_peer
\* call, no ClusterRecord built, written or returned, and every node the run
\* started is still there.
C4_DiscoveryExhausted ==
    attempts >= RetryCeiling
        => /\ pc \in {"discover", "returned"}
           /\ peerLog = <<>>
           /\ cluster_meta = NoMeta
           /\ RunRecordFiles = {}
           /\ response.status # "ok"
           /\ pc = "returned" => ErrorIs("Could not get enode")
           /\ \A idx \in 1..num_nodes : Started(idx)
           /\ Len(pids) = num_nodes
\* C4 witness: the run has failed on discovery with all three nodes started.
C4_Witness ==
    /\ ErrorIs("Could not get enode")
    /\ attempts = RetryCeiling
    /\ num_nodes = 3
    /\ Cardinality(RunProcs) = 3

\* C5: discovery does not give up before RetryCeiling node_info calls have
\* raised; when calls raise k <= 9 times and the next one answers with enode
\* E, E is the address returned and the one every add_peer call receives.
C5_EventualEnodeUsed ==
    /\ ErrorIs("Could not get enode") => attempts = RetryCeiling
    /\ pc \in {"discovered", "peer", "save"} \/ response.status = "ok"
          => /\ attempts < RetryCeiling
             /\ enode = niEnode
             /\ Truthy(enode)
    /\ \A k \in 1..Len(peerLog) : peerLog[k].enode = niEnode
\* C5 witness: nine calls raised, the tenth answered, and that answer is what
\* get_enode_via_rpc is returning.
C5_Witness ==
    /\ pc = "discovered"
    /\ attempts = RetryCeiling - 1
    /\ niEmpty = 0
    /\ num_nodes = 3
    /\ enode \in Enodes

\* The number of nodes 2..N
PeerCount == IF num_nodes >= 2 THEN num_nodes - 1 ELSE 0
\* C6: once discovery has succeeded, add_peer is called exactly once for each
\* node 2..N in increasing order and never for node 1, whatever the earlier
\* calls answered; a failed call ends neither the loop nor the run.
C6_OnePeerCallPerFollower ==
    /\ \A k \in 1..Len(peerLog) :
          /\ peerLog[k].idx = k + 1
          /\ peerLog[k].port = get_node_http_port(k + 1)
    /\ pc = "peer" /\ i <= num_nodes => Len(peerLog) = i - 2
    /\ Truthy(enode) /\ pc \in {"save", "returned"}
          => Len(peerLog) = PeerCount
\* C6 witness: with three nodes the call to node 2 failed and node 3 was
\* still called, and the run returned its record.
C6_Witness ==
    /\ num_nodes = 3
    /\ Len(peerLog) = 2
    /\ ~peerLog[1].ok
    /\ peerLog[2].ok
    /\ response.status = "ok"

\* What the returned result holds besides the status, the ClusterRecord
\* (meta, with its five fields) and the record's path
ReportFields ==
    (DOMAIN response \ {"status", "meta", "meta_path"}) \cup
    (IF "meta" \in DOMAIN response
     THEN DOMAIN response.meta
            \ {"timestamp", "num_nodes", "signers", "genesis", "pids"}
     ELSE {})
\* C7: when add_peer calls fail (and the record can be written) the run
\* completes, the ClusterRecord is produced, and the returned result tells
\* for each node whether its peer-add succeeded.
C7_PartialPeeringReported ==
    /\ pc = "returned"
    /\ SoundIdentities
    /\ \E k \in 1..Len(peerLog) : ~peerLog[k].ok
    /\ ~ErrorIs("OSError")
    => /\ response.status = "ok"
       /\ RunRecordFiles # {}
       /\ ReportFields # {}

\* C8: when init_nodes returns (N >= 1) it returns exactly N addresses, each a
\* valid 20-byte address and all distinct (a repeated address aborts the run
\* instead).
C8_DistinctValidAddresses ==
    genesis # NoGenesis /\ num_nodes >= 1
        => /\ Len(signer_addrs) = num_nodes
           /\ SoundIdentities

\* C9: when create_account finds no address for some node the run aborts with
\* no genesis built or written and no node initialised or started; a genesis
\* is only ever built from the full list of N addresses.
C9_NoGenesisFromPartialSet ==
    /\ Len(node_paths) > Len(signer_addrs)
          => /\ pc = "returned"
             /\ ErrorIs("Could not create account")
             /\ genesis = NoGenesis
             /\ RunGenesisFiles = {}
             /\ inits = <<>>
             /\ RunProcs = {}
    /\ genesis # NoGenesis
          => /\ Len(signer_addrs) = num_nodes
             /\ genesis = build_clique_genesis(chain_id, signer_addrs)
             /\ \A t \in RunGenesisFiles : genesisFiles[t].genesis = genesis
\* C9 witness: the third node's identity fails after two accounts were made.
C9_Witness ==
    /\ num_nodes = 3
    /\ Len(signer_addrs) = 2
    /\ Len(node_paths) = 3
    /\ ErrorIs("Could not create account")

\* Decoding of a hex string to bytes
HexVal(c) ==
    CASE c = "0" -> 0 [] c = "1" -> 1 [] c = "2" -> 2 [] c = "3" -> 3
      [] c = "4" -> 4 [] c = "5" -> 5 [] c = "6" -> 6 [] c = "7" -> 7
      [] c = "8" -> 8 [] c = "9" -> 9
      [] c \in {"a", "A"} -> 10 [] c \in {"b", "B"} -> 11
      [] c \in {"c", "C"} -> 12 [] c \in {"d", "D"} -> 13
      [] c \in {"e", "E"} -> 14 [] c \in {"f", "F"} -> 15
IsHexString(s) == \A k \in 1..Len(s) : IsHexChar(s[k])
HexDecode(s) ==
    [k \in 1..(Len(s) \div 2) |-> 16 * HexVal(s[2 * k - 1]) + HexVal(s[2 * k])]
Unprefixed(s) == SubSeq(s, 3, Len(s))
\* The layout of the claim, for the extraData string x and the addresses as
LayoutOf(x, as) ==
    /\ x[1] = "0" /\ x[2] = "x"
    /\ IsHexString(Unprefixed(x))
    /\ Len(Unprefixed(x)) = 2 * (VanityBytes + AddressBytes * Len(as) + TailBytes)
    /\ LET bytes == HexDecode(Unprefixed(x))
       IN /\ \A k \in 1..VanityBytes : bytes[k] = 0
          /\ \A n \in 1..Len(as) :
                SubSeq(bytes, VanityBytes + AddressBytes * (n - 1) + 1,
                       VanityBytes + AddressBytes * n)
                   = HexDecode(Unprefixed(as[n]))
          /\ \A k \in 1..TailBytes :
                bytes[VanityBytes + AddressBytes * Len(as) + k] = 0
\* C10: for every list of N 20-byte authority addresses given to
\* build_clique_genesis, extraData decodes to 32 + 20*N + 65 bytes: 32 zero
\* bytes, the addresses' raw bytes in the order given, 65 zero bytes.
C10_ExtraDataLayout ==
    /\ genesis # NoGenesis
    /\ \A k \in 1..Len(signer_addrs) : IsAddress(signer_addrs[k])
    => LayoutOf(genesis.extraData, signer_addrs)
\* C10 witness: a genesis built from three addresses, two of them different
\* and one in mixed case.
C10_Witness ==
    /\ genesis # NoGenesis
    /\ signer_addrs = <<AddrB, AddrA, AddrB>>

\* The records on disk carry different timestamps
DistinctRecordTimestamps ==
    \A t1, t2 \in 0..MaxTime :
       /\ t1 # t2
       /\ recordFiles[t1] # NoFile
       /\ recordFiles[t2] # NoFile
       => recordFiles[t1].meta.timestamp # recordFiles[t2].meta.timestamp
\* No step writes over a genesis file or a record that is already there
NoOverwrite ==
    \A t \in 0..MaxTime :
       /\ genesisFiles[t] # NoFile => genesisFiles'[t] = genesisFiles[t]
       /\ recordFiles[t] # NoFile => recordFiles'[t] = recordFiles[t]
\* C11: of two runs served one after the other (N >= 1), each writes its own
\* genesis file and its own ClusterRecord, the records carry different
\* timestamps, and no file one run wrote is written over by the other.
C11_RunsKeepFilesApart ==
    [](DistinctRecordTimestamps) /\ [][NoOverwrite]_vars
\* The part of C11 that does hold: records are never written over and carry
\* different timestamps
C11_RecordsKeptApart ==
    /\ [](DistinctRecordTimestamps)
    /\ [][\A t \in 0..MaxTime :
             recordFiles[t] # NoFile => recordFiles'[t] = recordFiles[t]]_vars
\* C18: in every run of a sequence (N >= 1), the enode passed to add_peer is
\* the one node_info answered with, and the process answering on node 1's
\* RPC port is the node 1 this run launched, not one an earlier run left.
C18_BootstrapFromOwnRun ==
    \A k \in 1..Len(peerLog) :
       /\ peerLog[k].enode = niEnode
       /\ \E j \in RunProcs :
             /\ procs[j].idx = 1
             /\ procs[j].pid = Listener(boot_http_port)
\* C19: when a second request is served while a run is under way, the two
\* runs do not write the same genesis file, do not create accounts in or
\* initialise the same node directory, and do not launch processes on the
\* same ports.
C19_OverlappingRunsDisjoint ==
    /\ genesis_path # NoPath /\ o_genesis_path # NoPath
          => genesis_path # o_genesis_path
    /\ \A a, b \in 1..Len(accounts) :
          accounts[a].run # accounts[b].run
             => accounts[a].node_dir # accounts[b].node_dir
    /\ \A k \in 1..Len(inits) : inits[k].node_dir \notin OtherInitialised
    /\ \A j, k \in 1..Len(procs) :
          procs[j].run # procs[k].run
             => /\ procs[j].http_port # procs[k].http_port
                /\ procs[j].p2p_port # procs[k].p2p_port
\* The phases of provision_cluster in program order
PhaseRank(p) ==
    CASE p = "idle" -> 0
      [] p = "init_nodes" -> 1
      [] p = "init" -> 2
      [] p = "start" -> 3
      [] p \in {"discover", "discovered"} -> 4
      [] p = "peer" -> 5
      [] p = "save" -> 6
      [] p = "returned" -> 7
\* The accounts the current run created
RunAccounts == {k \in 1..Len(accounts) : accounts[k].run = runs}
\* What has happened so far is in the order of the lifecycle
LifecycleOrder ==
    /\ \A k \in 1..Len(inits) :
          /\ inits[k].node_dir = k
          /\ node_paths[k] = k
          /\ Len(signer_addrs) = num_nodes
          /\ \E a \in RunAccounts : accounts[a].node_dir = k
          /\ genesis_path # NoPath
          /\ inits[k].genesis_path = genesis_path
          /\ genesisFiles[genesis_path] = [run |-> runs, genesis |-> genesis]
    /\ \A k \in 1..Len(procs) :
          procs[k].run = runs
             => /\ Len(inits) = num_nodes
                /\ inits[procs[k].idx].node_dir = procs[k].node_dir
                /\ inits[procs[k].idx].returncode = 0
                /\ \A j \in 1..Len(procs) :
                      procs[j].run = runs /\ procs[j].idx = procs[k].idx
                         => j = k
\* One step never goes back to an earlier phase nor redoes its work
LifecycleStep ==
    /\ PhaseRank(pc') >= PhaseRank(pc)
    /\ PhaseRank(pc) > 1
          => /\ node_paths' = node_paths
             /\ signer_addrs' = signer_addrs
             /\ accounts' = accounts
    /\ PhaseRank(pc) > 2 => inits' = inits /\ genesisFiles' = genesisFiles
    /\ PhaseRank(pc) > 3 => procs' = procs
    /\ Len(inits') >= Len(inits)
    /\ Len(procs') >= Len(procs)
\* C12: within a run write_genesis comes before any init_geth_datadir; every
\* node is created, then initialised, then started; init_geth_datadir is
\* called once per node and before that node's start_geth_node; a phase is
\* never run again once a later one has begun.
C12_LifecycleOrder == [](LifecycleOrder) /\ [][LifecycleStep]_vars
\* C12 witness: three nodes were created, initialised and started, and the
\* run is past the start phase.
C12_Witness ==
    /\ num_nodes = 3
    /\ Len(inits) = 3
    /\ Cardinality(RunProcs) = 3
    /\ pc = "peer"

\* The five fields of a ClusterRecord
RecordFields == {"timestamp", "num_nodes", "signers", "genesis", "pids"}
\* C13: api_provision never lets an exception out: a failure of identity
\* creation, of geth init, of discovery or of the record's write comes back as
\* the error object {status: error, detail}, and a success as the full
\* ClusterRecord with its path; nothing is returned before the run has ended.
C13_AlwaysStructuredResult ==
    /\ pc # "returned" => response = NoResponse
    /\ pc = "returned"
          => /\ response.status \in {"ok", "error"}
             /\ Len(node_paths) > Len(signer_addrs)
                   => ErrorIs("Could not create account")
             /\ (\E k \in 1..Len(inits) : inits[k].returncode # 0)
                   => ErrorIs("geth init failed")
             /\ attempts >= RetryCeiling => ErrorIs("Could not get enode")
             /\ cluster_meta # NoMeta /\ RunRecordFiles = {}
                   => ErrorIs("OSError")
             /\ response.status = "error"
                   => DOMAIN response = {"status", "detail"}
             /\ response.status = "ok"
                   => /\ DOMAIN response = {"status", "meta", "meta_path"}
                      /\ DOMAIN response.meta = RecordFields
                      /\ response.meta = cluster_meta
                      /\ recordFiles[response.meta_path]
                            = [run |-> runs, meta |-> cluster_meta]
\* C13 witness: the record of a three-node run could not be written and the
\* caller has the error object.
C13_Witness ==
    /\ num_nodes = 3
    /\ cluster_meta # NoMeta
    /\ ErrorIs("OSError")

\* C14: the ClusterRecord of a successful run with N nodes has num_nodes = N,
\* N signers, N pids, and a genesis reference that is the path of the genesis
\* file every node of the run was initialised from.
C14_RecordComplete ==
    response.status = "ok"
        => /\ response.meta.num_nodes = num_nodes
           /\ Len(response.meta.signers) = num_nodes
           /\ Len(response.meta.pids) = num_nodes
           /\ response.meta.genesis # NoPath
           /\ response.meta.genesis \in RunGenesisFiles
           /\ Len(inits) = num_nodes
           /\ \A k \in 1..Len(inits) :
                 /\ inits[k].genesis_path = response.meta.genesis
                 /\ inits[k].returncode = 0
           /\ \A t \in RunRecordFiles : recordFiles[t].meta = response.meta
\* C14 witness: a three-node run has returned its record, written seconds
\* after the genesis file.
C14_Witness ==
    /\ response.status = "ok"
    /\ num_nodes = 3
    /\ response.meta.genesis < response.meta.timestamp

\* C15: a successful run (N >= 1) persists exactly one ClusterRecord, and the
\* key it is stored under (the <t> of cluster_<t>.json) is the clock value at
\* which the run started, however long the run took.
C15_KeyedByStartTime ==
    response.status = "ok" /\ num_nodes >= 1 /\ SoundIdentities
        => /\ Cardinality(RunRecordFiles) = 1
           /\ response.meta_path = started_at
           /\ recordFiles[started_at] = [run |-> runs, meta |-> cluster_meta]

\* The kind of a returned object: everything in it but the free-text detail
ErrorKind(r) == [f \in DOMAIN r \ {"detail"} |-> r[f]]
\* The error objects of the fatal setup failures (identity, init, discovery)
SetupErrors ==
    {[status |-> "error", detail |-> d] :
        d \in {"Could not create account", "geth init failed",
               "Could not get enode"}}
C16_ProcessesKept ==
    pc = "returned" /\ cluster_meta # NoMeta /\ RunRecordFiles = {}
        => /\ \A idx \in 1..num_nodes : Started(idx)
           /\ Len(pids) = num_nodes
           /\ response.status # "ok"

\* C17: port assignment is injective: nodes with different indices get
\* different network ports and different RPC ports, node i's network port is
\* P2P_BASE + (i-1) and its RPC port is HTTP_BASE + (i-1), in the functions
\* and in the processes launched.
C17_PortsInjective ==
    /\ \A a, b \in 1..MaxNodes :
          /\ get_node_p2p_port(a) = P2P_BASE + (a - 1)
          /\ get_node_http_port(a) = HTTP_BASE + (a - 1)
          /\ a # b => /\ get_node_p2p_port(a) # get_node_p2p_port(b)
                      /\ get_node_http_port(a) # get_node_http_port(b)
    /\ \A j, k \in RunProcs :
          /\ procs[k].p2p_port = P2P_BASE + (procs[k].idx - 1)
          /\ procs[k].http_port = HTTP_BASE + (procs[k].idx - 1)
          /\ procs[k].idx = Cardinality({m \in RunProcs : m <= k})
          /\ j # k => /\ procs[j].p2p_port # procs[k].p2p_port
                      /\ procs[j].http_port # procs[k].http_port
\* C17 witness: three nodes of one run have been launched.
C17_Witness ==
    /\ num_nodes = 3
    /\ Cardinality(RunProcs) = 3
    /\ pc = "discover"

\* Where the n-th address of the list as begins in extraData, after "0x" and
\* the vanity bytes
RECURSIVE AuthorityOffset(_, _)
AuthorityOffset(as, n) ==
    IF n = 1 THEN 2 + 2 * VanityBytes
    ELSE AuthorityOffset(as, n - 1) + Len(Unprefixed(as[n - 1]))
\* The n-th authority written into the extraData string x
AuthorityAt(x, as, n) ==
    SubSeq(x, AuthorityOffset(as, n) + 1,
           AuthorityOffset(as, n) + Len(Unprefixed(as[n])))
\* C20: in a successful run, for every node i the account geth unlocks is
\* the one created in node i's directory by this run, is the i-th authority
\* written into the extraData of the run's genesis file (for 20-byte addresses
\* the i-th 20-byte slot), is signers[i-1] of the record, and pids[i-1] is
\* the pid captured at node i's launch.
C20_IndexAligned ==
    response.status = "ok"
        => \A idx \in 1..num_nodes :
              \E k \in RunProcs :
                 /\ procs[k].idx = idx
                 /\ procs[k].node_dir = idx
                 /\ \E a \in RunAccounts :
                       /\ accounts[a].node_dir = idx
                       /\ accounts[a].address = procs[k].unlock
                 /\ AuthorityAt(genesisFiles[response.meta.genesis]
                                   .genesis.extraData,
                                response.meta.signers, idx)
                       = Lower(Unprefixed(procs[k].unlock))
                 /\ response.meta.signers[idx] = procs[k].unlock
                 /\ response.meta.pids[idx] = procs[k].pid
\* C20 witness: a three-node run with different accounts for nodes 1 and 2
\* has returned its record.
C20_Witness ==
    /\ response.status = "ok"
    /\ num_nodes = 3
    /\ signer_addrs[1] # signer_addrs[2]
    /\ IsAddress(signer_addrs[1]) /\ IsAddress(signer_addrs[2])

====
